---- MODULE Spec2Model ----
(***************************************************************************)
(* Model of litex-renode: the LiteX csr.csv loader                         *)
(* (src/litex/configuration.py) and the Renode script generator            *)
(* (src/generate-renode-scripts.py).                                       *)
(*                                                                         *)
(* Python str values are sequences of one-character strings, so that       *)
(* startswith, slicing, the `in` substring test and int(text, 0) are       *)
(* computed and not assumed.  Python dicts are sequences of entries with   *)
(* unique `name`, in insertion order.  An optional value (None or a value) *)
(* is the empty sequence or a one-element sequence.                        *)
(***************************************************************************)
EXTENDS Integers, Sequences, FiniteSets, TLC

VARIABLES
    data,             \* the rows of csr.csv, comments removed
    args,             \* the parsed command line
    pc,               \* position of main()
    peripherals,      \* Configuration.peripherals
    constants,        \* Configuration.constants
    registers,        \* Configuration.registers
    mem_regions,      \* Configuration.mem_regions
    raw_regions,      \* filter_memory_regions: names of the sorted regions not yet visited
    previous_region,  \* filter_memory_regions: name of the last yielded region
    yielded,          \* the regions filter_memory_regions has yielded, as yielded
    result,           \* generate_repl: the platform description built so far
    repl_file,        \* the platform description file, once written
    resc_file,        \* the startup script file, once written
    refiltered,       \* outcome of filter_memory_regions on its own output
    offset_in,        \* flash offset computation: boot address, flash base, mask
    offset_out        \* flash offset computation: the offset

vars == <<data, args, pc, peripherals, constants, registers, mem_regions,
          raw_regions, previous_region, yielded, result, repl_file, resc_file,
          refiltered, offset_in, offset_out>>

----------------------------------------------------------------------------
(* Bounds of the model *)

\* longest csr.csv of the loader family (csr_base and constant rows)
MaxParseRecords == 3
\* most memory_region rows of the region family
MaxRegions == 3
\* shadow family: addresses and masks are pages 0..MaxPage
MaxPage == 3
\* flash offset family: addresses are 0..MaxBoot
MaxBoot == 7

----------------------------------------------------------------------------
(* Optional values and text *)

None == <<>>
Some(v) == <<v>>

\* str.startswith
StartsWith(s, p) == Len(p) <= Len(s) /\ SubSeq(s, 1, Len(p)) = p

\* s[n:]
SliceFrom(s, n) == SubSeq(s, n + 1, Len(s))

\* sub in s, for strings
Contains(s, sub) ==
    \E i \in 0..(Len(s) - Len(sub)) : SubSeq(s, i + 1, i + Len(sub)) = sub

HexChars == <<"0", "1", "2", "3", "4", "5", "6", "7", "8", "9",
              "a", "b", "c", "d", "e", "f">>

DigitValue(c) == (CHOOSE i \in 1..16 : HexChars[i] = c) - 1

RECURSIVE DigitsValue(_, _)
DigitsValue(ds, radix) ==
    IF ds = <<>> THEN 0
    ELSE DigitsValue(SubSeq(ds, 1, Len(ds) - 1), radix) * radix
         + DigitValue(ds[Len(ds)])

\* int(text, 0) on a well-formed literal: 0x-prefixed hexadecimal or decimal
ParseInt(text) ==
    IF StartsWith(text, <<"0", "x">>)
    THEN DigitsValue(SliceFrom(text, 2), 16)
    ELSE DigitsValue(text, 10)

\* the literals LiteX writes into csr.csv
RECURSIVE Digits(_, _)
Digits(n, radix) ==
    IF n < radix THEN <<HexChars[n + 1]>>
    ELSE Append(Digits(n \div radix, radix), HexChars[(n % radix) + 1])

HexText(n) == <<"0", "x">> \o Digits(n, 16)
DecText(n) == Digits(n, 10)

\* the sum in place of the bitwise or
BitOrAdds(a, b) == a + b

\* a | b on non-negative integers
RECURSIVE BitOr(_, _)
BitOr(a, b) ==
    IF a = 0 THEN b
    ELSE IF b = 0 THEN a
    ELSE (IF a % 2 = 1 \/ b % 2 = 1 THEN 1 ELSE 0) + 2 * BitOr(a \div 2, b \div 2)

\* a & ~m on non-negative integers
RECURSIVE BitAndNot(_, _)
BitAndNot(a, m) ==
    IF a = 0 THEN 0
    ELSE (IF a % 2 = 1 /\ m % 2 = 0 THEN 1 ELSE 0) + 2 * BitAndNot(a \div 2, m \div 2)

----------------------------------------------------------------------------
(* Names used by the program and by the inputs *)

Uart == <<"u", "a", "r", "t">>
Ctrl == <<"c", "t", "r", "l">>
Ethmac == <<"e", "t", "h", "m", "a", "c">>
Csr == <<"c", "s", "r">>
Rom == <<"r", "o", "m">>
Sram == <<"s", "r", "a", "m">>
Linker == <<"l", "i", "n", "k", "e", "r">>
Cached == <<"c", "a", "c", "h", "e", "d">>
ShadowBase == <<"s", "h", "a", "d", "o", "w", "_", "b", "a", "s", "e">>
FlashBootAddress == <<"f", "l", "a", "s", "h", "_", "b", "o", "o", "t", "_",
                      "a", "d", "d", "r", "e", "s", "s">>
ConfigCpuType == <<"c", "o", "n", "f", "i", "g", "_", "c", "p", "u", "_",
                   "t", "y", "p", "e", "_">>
Vexriscv == <<"v", "e", "x", "r", "i", "s", "c", "v">>
Picorv32 == <<"p", "i", "c", "o", "r", "v", "3", "2">>

\* non_generated_mem_regions
non_generated_mem_regions == {Ethmac, Csr}

\* the alignment generate_repl passes to filter_memory_regions (0x1000)
Alignment == 4096

----------------------------------------------------------------------------
(* Dictionaries *)

HasKey(d, k) == \E i \in 1..Len(d) : d[i].name = k
IndexOf(d, k) == CHOOSE i \in 1..Len(d) : d[i].name = k
Get(d, k) == d[IndexOf(d, k)]

\* d[e.name] = e
Put(d, e) ==
    IF HasKey(d, e.name) THEN [d EXCEPT ![IndexOf(d, e.name)] = e]
    ELSE Append(d, e)

----------------------------------------------------------------------------
(* litex/configuration.py: Configuration *)

\* _parse_csv, first loop: the csr_base rows
RECURSIVE ParseCsrBases(_, _)
ParseCsrBases(rows, per) ==
    IF rows = <<>> THEN per
    ELSE LET row == Head(rows) IN
         ParseCsrBases(Tail(rows),
             IF row.type = "csr_base"
             THEN Put(per, [name |-> row.name,
                            address |-> ParseInt(row.val),
                            constants |-> <<>>,
                            shadowed_address |-> None])
             ELSE per)

\* the test that attaches a constant to a peripheral: _name.startswith(_csr_name)
ConstantMatches(name, csr_name) == StartsWith(name, csr_name)

\* local_name = _name[len(_csr_name) + 1:]
LocalName(name, csr_name) == SliceFrom(name, Len(csr_name) + 1)

\* _parse_csv, second loop, one row; cfg holds the four collections
ParseRow(cfg, row) ==
    CASE row.type = "csr_base" -> cfg
      [] row.type = "csr_register" ->
            [cfg EXCEPT !.registers =
                Put(@, [name |-> row.name,
                        address |-> ParseInt(row.val),
                        size |-> ParseInt(row.val2),
                        r |-> row.val3,
                        shadowed_address |-> None])]
      [] row.type = "constant" ->
            LET found == {i \in 1..Len(cfg.peripherals) :
                             ConstantMatches(row.name, cfg.peripherals[i].name)}
            IN  IF found # {}
                THEN LET i == CHOOSE j \in found : \A k \in found : j <= k
                         p == cfg.peripherals[i]
                     IN  [cfg EXCEPT !.peripherals[i].constants =
                             Put(@, [name |-> LocalName(row.name, p.name),
                                     value |-> row.val])]
                ELSE [cfg EXCEPT !.constants =
                         Put(@, [name |-> row.name, value |-> row.val])]
      [] row.type = "memory_region" ->
            [cfg EXCEPT !.mem_regions =
                Put(@, [name |-> row.name,
                        address |-> ParseInt(row.val),
                        size |-> ParseInt(row.val2),
                        type |-> row.val3,
                        shadowed_address |-> None,
                        original_address |-> None,
                        original_size |-> None])]
      [] OTHER -> cfg

RECURSIVE ParseRows(_, _)
ParseRows(rows, cfg) ==
    IF rows = <<>> THEN cfg
    ELSE ParseRows(Tail(rows), ParseRow(cfg, Head(rows)))

\* _parse_csv
ParseCsv(rows) ==
    ParseRows(rows, [peripherals |-> ParseCsrBases(rows, <<>>),
                     constants |-> <<>>,
                     registers |-> <<>>,
                     mem_regions |-> <<>>])

\* the normalization without the branch that clears the mask from the address
NormalizeEntityNoClear(r, shadow_base) ==
    IF shadow_base = None
    THEN [r EXCEPT !.shadowed_address = None]
    ELSE [r EXCEPT !.shadowed_address = Some(BitOr(r.address, shadow_base[1]))]

\* _normalize_addresses, the body of the loop, for one entity
NormalizeEntity(r, shadow_base) ==
    IF shadow_base = None
    THEN [r EXCEPT !.shadowed_address = None]
    ELSE LET shadowed == BitOr(r.address, shadow_base[1]) IN
         IF shadowed = r.address
         THEN [r EXCEPT !.shadowed_address = Some(shadowed),
                        !.address = BitAndNot(r.address, shadow_base[1])]
         ELSE [r EXCEPT !.shadowed_address = Some(shadowed)]

\* _normalize_addresses: the value of shadow_base
ShadowBaseOf(cons) ==
    IF HasKey(cons, ShadowBase) THEN Some(ParseInt(Get(cons, ShadowBase).value))
    ELSE None

NormalizeAll(d, shadow_base) ==
    [i \in 1..Len(d) |-> NormalizeEntity(d[i], shadow_base)]

\* _normalize_addresses
NormalizeAddresses(cfg) ==
    LET shadow_base == ShadowBaseOf(cfg.constants) IN
    [cfg EXCEPT !.mem_regions = NormalizeAll(@, shadow_base),
                !.registers = NormalizeAll(@, shadow_base),
                !.peripherals = NormalizeAll(@, shadow_base)]

----------------------------------------------------------------------------
(* generate-renode-scripts.py: filter_memory_regions *)

\* r['address'] -= address_mismatch
CorrectedAddress(address, alignment) == address - (address % alignment)

\* the correction with the mismatch added instead of its complement
CorrectedSizeAddsMismatch(size, alignment) == size + (size % alignment)

\* the correction rounding down instead of up
CorrectedSizeRoundsDown(size, alignment) == size - (size % alignment)

\* r['size'] += alignment - size_mismatch
CorrectedSize(size, alignment) == size + alignment - (size % alignment)

\* the alignment block without its exits: a region outside the allow-list
\* is passed on as it is
AlignRegionNoExit(r, alignment, autoalign) ==
    LET size_mismatch == r.size % alignment
        address_mismatch == r.address % alignment
        r1 == IF address_mismatch # 0 /\ r.name \in autoalign
              THEN [r EXCEPT !.original_address = Some(r.address),
                             !.address = CorrectedAddress(r.address, alignment)]
              ELSE r
        r2 == IF size_mismatch # 0 /\ r.name \in autoalign
              THEN [r1 EXCEPT !.original_size = Some(r1.size),
                              !.size = CorrectedSize(r1.size, alignment)]
              ELSE r1
    IN  [kind |-> "aligned", region |-> r2]

\* the alignment block of the loop body, for a region that is not skipped:
\* the region as the block leaves it, and whether the block exits
AlignRegion(r, alignment, autoalign) ==
    LET size_mismatch == r.size % alignment
        address_mismatch == r.address % alignment
        r1 == IF address_mismatch # 0 /\ r.name \in autoalign
              THEN [r EXCEPT !.original_address = Some(r.address),
                             !.address = CorrectedAddress(r.address, alignment)]
              ELSE r
        r2 == IF size_mismatch # 0 /\ r.name \in autoalign
              THEN [r1 EXCEPT !.original_size = Some(r1.size),
                              !.size = CorrectedSize(r1.size, alignment)]
              ELSE r1
    IN  IF address_mismatch # 0 /\ r.name \notin autoalign
        THEN [kind |-> "exit_address", region |-> r]
        ELSE IF size_mismatch # 0 /\ r.name \notin autoalign
        THEN [kind |-> "exit_size", region |-> r1]
        ELSE [kind |-> "aligned", region |-> r2]

\* the overlap test; previous is None or the last yielded region
Overlaps(previous, r) ==
    previous # None
    /\ previous[1].address + previous[1].size > r.address + r.size

\* the loop body without the test of non_generated_mem_regions
FilterIterSkipsLinkerOnly(r, previous, alignment, autoalign) ==
    IF Contains(r.type, Linker)
    THEN [kind |-> "skip_linker", region |-> r]
    ELSE LET a == IF alignment = None
                  THEN [kind |-> "aligned", region |-> r]
                  ELSE AlignRegion(r, alignment[1], autoalign)
         IN  IF a.kind # "aligned" THEN a
             ELSE IF Overlaps(previous, a.region)
             THEN [kind |-> "exit_overlap", region |-> a.region]
             ELSE [kind |-> "yield", region |-> a.region]

\* one iteration of the loop of filter_memory_regions
FilterIter(r, previous, alignment, autoalign) ==
    IF Contains(r.type, Linker)
    THEN [kind |-> "skip_linker", region |-> r]
    ELSE IF r.name \in non_generated_mem_regions
    THEN [kind |-> "skip_predefined", region |-> r]
    ELSE LET a == IF alignment = None
                  THEN [kind |-> "aligned", region |-> r]
                  ELSE AlignRegion(r, alignment[1], autoalign)
         IN  IF a.kind # "aligned" THEN a
             ELSE IF Overlaps(previous, a.region)
             THEN [kind |-> "exit_overlap", region |-> a.region]
             ELSE [kind |-> "yield", region |-> a.region]

\* a sort that is not stable: r goes before the entries equal to it
InsertSortedUnstable(s, r) ==
    LET k == Cardinality({i \in 1..Len(s) : s[i].address < r.address})
    IN  SubSeq(s, 1, k) \o <<r>> \o SubSeq(s, k + 1, Len(s))

\* list.sort(key=address) is stable: r goes after the entries not above it
InsertSorted(s, r) ==
    LET k == Cardinality({i \in 1..Len(s) : s[i].address <= r.address})
    IN  SubSeq(s, 1, k) \o <<r>> \o SubSeq(s, k + 1, Len(s))

\* the regions left in the order of the file
SortByAddressNoSort(rs) == rs

\* raw_regions.sort(key=lambda x: x['address'])
RECURSIVE SortByAddress(_)
SortByAddress(rs) ==
    IF rs = <<>> THEN <<>>
    ELSE InsertSorted(SortByAddress(SubSeq(rs, 1, Len(rs) - 1)), rs[Len(rs)])

RECURSIVE FilterLoop(_, _, _, _, _)
FilterLoop(rest, previous, out, alignment, autoalign) ==
    IF rest = <<>> THEN [status |-> "completed", regions |-> out]
    ELSE LET it == FilterIter(Head(rest), previous, alignment, autoalign) IN
         CASE it.kind \in {"skip_linker", "skip_predefined"} ->
                  FilterLoop(Tail(rest), previous, out, alignment, autoalign)
           [] it.kind = "yield" ->
                  FilterLoop(Tail(rest), Some(it.region), Append(out, it.region),
                             alignment, autoalign)
           [] OTHER -> [status |-> "exit", regions |-> out]

\* filter_memory_regions consumed to its end (list(filter_memory_regions(...)))
FilterMemoryRegions(raw, alignment, autoalign) ==
    FilterLoop(SortByAddress(raw), None, <<>>, alignment, autoalign)

----------------------------------------------------------------------------
(* generate-renode-scripts.py: generation *)

\* truth value of descriptor['shadowed_address']
Truthy(opt) == opt # None /\ opt[1] # 0

\* generate_sysbus_registration: the bus addresses registered for a descriptor
GenerateSysbusRegistration(descriptor) ==
    IF Truthy(descriptor.shadowed_address)
    THEN <<descriptor.address, descriptor.shadowed_address[1]>>
    ELSE <<descriptor.address>>

\* generate_memory_region
GenerateMemoryRegion(r) ==
    [kind |-> "memory",
     name |-> r.name,
     registration |-> GenerateSysbusRegistration(r),
     size |-> Some(r.size),
     original_address |-> r.original_address,
     original_size |-> r.original_size]

\* generate_peripheral
GeneratePeripheral(p) ==
    [kind |-> "peripheral",
     name |-> p.name,
     registration |-> GenerateSysbusRegistration(p),
     size |-> None,
     original_address |-> None,
     original_size |-> None]

\* peripherals_handlers: the entries whose handler is generate_peripheral
\* without properties; the inputs name no other supported peripheral
peripherals_handlers == {Uart, Ctrl}

\* get_cpu_type: kind
CpuKind(cons) ==
    LET ks == {i \in 1..Len(cons) : StartsWith(cons[i].name, ConfigCpuType)}
    IN  IF ks = {} THEN None
        ELSE LET i == CHOOSE j \in ks : \A k \in ks : j <= k
             IN  Some(SliceFrom(cons[i].name, Len(ConfigCpuType)))

\* generate_cpu returns (otherwise it raises 'Unsupported cpu type')
CpuSupported(cons) ==
    CpuKind(cons) # None /\ CpuKind(cons)[1] \in {Vexriscv, Picorv32}

HasHandler(p) == p.name \in peripherals_handlers

\* generate_repl, the loop over configuration.peripherals
GeneratePeripherals(per) ==
    LET handled == SelectSeq(per, HasHandler)
    IN  [i \in 1..Len(handled) |-> GeneratePeripheral(handled[i])]

\* generate_resc, the flash branch: the bus addresses written for the
\* firmware binary (flash_binaries = {0: path})
FlashWrites(cons, firmware_binary) ==
    IF firmware_binary /\ HasKey(cons, FlashBootAddress)
    THEN LET flash_boot_address == ParseInt(Get(cons, FlashBootAddress).value) + 0
         IN  <<flash_boot_address, flash_boot_address + 4, flash_boot_address + 8>>
    ELSE <<>>

----------------------------------------------------------------------------
(* Flash offset computation (spec section 4.4) *)

RECURSIVE MinOf(_)
MinOf(s) ==
    IF Len(s) = 1 THEN s[1]
    ELSE LET m == MinOf(Tail(s)) IN IF s[1] <= m THEN s[1] ELSE m

NonNegative(x) == x >= 0

\* the three interpretations of the boot address, each minus the flash base
OffsetCandidates(boot, flash_base, mask) ==
    <<boot - flash_base,
      BitOr(boot, mask) - flash_base,
      BitAndNot(boot, mask) - flash_base>>

\* the minimum of all three candidates, negative ones included
CalculateOffsetAnySign(boot, flash_base, mask) ==
    MinOf(OffsetCandidates(boot, flash_base, mask))

\* the minimum of the candidates that are not negative
CalculateOffset(boot, flash_base, mask) ==
    MinOf(SelectSeq(OffsetCandidates(boot, flash_base, mask), NonNegative))

----------------------------------------------------------------------------
(* Inputs: csr.csv files and command lines *)

Row(type, name, val, val2, val3) ==
    [type |-> type, name |-> name, val |-> val, val2 |-> val2, val3 |-> val3]

NoText == <<>>

CpuRow == Row("constant", ConfigCpuType \o Vexriscv, <<"N", "o", "n", "e">>, NoText, NoText)
ConstantRow(name, val) == Row("constant", name, val, NoText, NoText)
CsrBaseRow(name, address) == Row("csr_base", name, HexText(address), NoText, NoText)
RegisterRow(name, address) ==
    Row("csr_register", name, HexText(address), DecText(8), <<"r", "o">>)
RegionRow(name, address, size, type) ==
    Row("memory_region", name, HexText(address), DecText(size), type)

\* sequences of at most n rows of pool, no two with the same name
RowSeqs(pool, n) ==
    UNION {{s \in [1..k -> pool] :
                \A i, j \in 1..k : i # j => s[i].name # s[j].name} : k \in 0..n}

Ua == <<"u", "a">>
UartX == Uart \o <<"_", "x">>
UartZX == Uart \o <<"z", "x">>
Info == <<"i", "n", "f", "o">>

\* loader family: peripherals and constants whose names share prefixes
ParsePool ==
    {CsrBaseRow(Uart, 4096), CsrBaseRow(Ua, 8192),
     ConstantRow(UartX, DecText(1)), ConstantRow(UartZX, DecText(2)),
     ConstantRow(<<"z">>, DecText(3)),
     RegisterRow(Info, 12288),
     Row("csr_unknown", <<"w">>, NoText, NoText, NoText)}

\* region family: up to MaxRegions memory regions; the excluded ones (a
\* linker region, the csr window) have a size that is not aligned
RegionPool ==
    {RegionRow(n, a, sz, Cached) :
        n \in {Rom, Sram}, a \in {0, 4096, 6144}, sz \in {4096, 5376, 8192}}
    \cup
    {RegionRow(nt[1], a, 5376, nt[2]) :
        nt \in {<<Sram, Cached \o <<"+">> \o Linker>>, <<Csr, Cached>>},
        a \in {0, 4096, 6144}}

AutoalignChoices == {{}, {Rom}, {Rom, Sram}}

\* shadow family: one entity of each kind at a half-page address, under a
\* shadow_base of whole pages, or none
ShadowEntities ==
    UNION {{RegionRow(Rom, 2048 * k, 4096, Cached),
            RegisterRow(Info, 2048 * k),
            CsrBaseRow(Ctrl, 2048 * k)} : k \in 0..(2 * MaxPage + 1)}

ShadowRows ==
    {<<>>} \cup {<<ConstantRow(ShadowBase, HexText(4096 * j))>> : j \in 0..MaxPage}

Args(repl, resc, firmware_binary, autoalign) ==
    [repl |-> repl, resc |-> resc, firmware_binary |-> firmware_binary,
     autoalign |-> autoalign]

InitState(rows, a) ==
    /\ data = rows
    /\ args = a
    /\ pc = "parse"
    /\ peripherals = <<>>
    /\ constants = <<>>
    /\ registers = <<>>
    /\ mem_regions = <<>>
    /\ raw_regions = <<>>
    /\ previous_region = None
    /\ yielded = <<>>
    /\ result = <<>>
    /\ repl_file = None
    /\ resc_file = None
    /\ refiltered = None
    /\ offset_in = [boot |-> 0, flash_base |-> 0, mask |-> 0]
    /\ offset_out = None

InitParse ==
    \E rows \in RowSeqs(ParsePool, MaxParseRecords) :
        InitState(rows, Args(FALSE, FALSE, FALSE, {}))

InitShadow ==
    \E sh \in ShadowRows, e \in ShadowEntities, aa \in {{}, {Rom}} :
        InitState(<<CpuRow>> \o sh \o <<e>>, Args(TRUE, FALSE, FALSE, aa))

InitRegions ==
    \E rows \in RowSeqs(RegionPool, MaxRegions), aa \in AutoalignChoices :
        InitState(<<CpuRow>> \o rows, Args(TRUE, FALSE, FALSE, aa))

InitMain ==
    \E cpu \in {<<>>, <<CpuRow>>},
       boot \in {<<>>, <<ConstantRow(FlashBootAddress, HexText(8192))>>},
       a \in {0, 6144},
       repl \in BOOLEAN, resc \in BOOLEAN, fw \in BOOLEAN,
       aa \in {{}, {Rom}} :
        InitState(cpu \o boot \o <<RegionRow(Rom, a, 4096, Cached)>>,
                  Args(repl, resc, fw, aa))

Init == InitParse \/ InitShadow \/ InitRegions \/ InitMain

----------------------------------------------------------------------------
(* main() *)

Configuration == [peripherals |-> peripherals, constants |-> constants,
                  registers |-> registers, mem_regions |-> mem_regions]

\* Configuration.__init__: self._parse_csv(...)
Parse ==
    /\ pc = "parse"
    /\ LET cfg == ParseCsv(data) IN
        /\ peripherals' = cfg.peripherals
        /\ constants' = cfg.constants
        /\ registers' = cfg.registers
        /\ mem_regions' = cfg.mem_regions
    /\ pc' = "normalize"
    /\ UNCHANGED <<data, args, raw_regions, previous_region, yielded, result,
                   repl_file, resc_file, refiltered, offset_in, offset_out>>

\* Configuration.__init__: self._normalize_addresses()
Normalize ==
    /\ pc = "normalize"
    /\ LET cfg == NormalizeAddresses(Configuration) IN
        /\ peripherals' = cfg.peripherals
        /\ registers' = cfg.registers
        /\ mem_regions' = cfg.mem_regions
    /\ pc' = "generate_repl"
    /\ UNCHANGED <<data, args, constants, raw_regions, previous_region, yielded,
                   result, repl_file, resc_file, refiltered, offset_in, offset_out>>

\* main: if args.repl, generate_repl starts filter_memory_regions (the sort)
StartRepl ==
    /\ pc = "generate_repl"
    /\ args.repl
    /\ LET sorted == SortByAddress(mem_regions) IN
        raw_regions' = [i \in 1..Len(sorted) |-> sorted[i].name]
    /\ previous_region' = None
    /\ pc' = "filter"
    /\ UNCHANGED <<data, args, peripherals, constants, registers, mem_regions,
                   yielded, result, repl_file, resc_file, refiltered,
                   offset_in, offset_out>>

\* main: no --repl
SkipRepl ==
    /\ pc = "generate_repl"
    /\ ~args.repl
    /\ pc' = "generate_resc"
    /\ UNCHANGED <<data, args, peripherals, constants, registers, mem_regions,
                   raw_regions, previous_region, yielded, result, repl_file,
                   resc_file, refiltered, offset_in, offset_out>>

\* the iteration of filter_memory_regions on the next region of the sorted list
CurrentIter ==
    FilterIter(Get(mem_regions, Head(raw_regions)),
               IF previous_region = None THEN None
               ELSE Some(Get(mem_regions, previous_region[1])),
               Some(Alignment), args.autoalign)

\* filter_memory_regions: continue
FilterSkip ==
    /\ pc = "filter"
    /\ raw_regions # <<>>
    /\ CurrentIter.kind \in {"skip_linker", "skip_predefined"}
    /\ raw_regions' = Tail(raw_regions)
    /\ UNCHANGED <<data, args, pc, peripherals, constants, registers, mem_regions,
                   previous_region, yielded, result, repl_file, resc_file,
                   refiltered, offset_in, offset_out>>

\* filter_memory_regions: yield r, and generate_repl appends its block
FilterYield ==
    /\ pc = "filter"
    /\ raw_regions # <<>>
    /\ CurrentIter.kind = "yield"
    /\ mem_regions' = Put(mem_regions, CurrentIter.region)
    /\ previous_region' = Some(CurrentIter.region.name)
    /\ yielded' = Append(yielded, CurrentIter.region)
    /\ result' = Append(result, GenerateMemoryRegion(CurrentIter.region))
    /\ raw_regions' = Tail(raw_regions)
    /\ UNCHANGED <<data, args, pc, peripherals, constants, registers, repl_file,
                   resc_file, refiltered, offset_in, offset_out>>

\* filter_memory_regions: sys.exit(1) after the diagnostic; pc names which
FilterExit ==
    /\ pc = "filter"
    /\ raw_regions # <<>>
    /\ CurrentIter.kind \in {"exit_address", "exit_size", "exit_overlap"}
    /\ mem_regions' = Put(mem_regions, CurrentIter.region)
    /\ pc' = CurrentIter.kind
    /\ UNCHANGED <<data, args, peripherals, constants, registers, raw_regions,
                   previous_region, yielded, result, repl_file, resc_file,
                   refiltered, offset_in, offset_out>>

\* generate_repl after the regions, then print_or_save(args.repl, ...)
FinishRepl ==
    /\ pc = "filter"
    /\ raw_regions = <<>>
    /\ CpuSupported(constants)
    /\ result' = result \o GeneratePeripherals(peripherals)
    /\ repl_file' = Some(result')
    /\ pc' = "generate_resc"
    /\ UNCHANGED <<data, args, peripherals, constants, registers, mem_regions,
                   raw_regions, previous_region, yielded, resc_file, refiltered,
                   offset_in, offset_out>>

\* generate_cpu raises 'Unsupported cpu type'
ReplException ==
    /\ pc = "filter"
    /\ raw_regions = <<>>
    /\ ~CpuSupported(constants)
    /\ pc' = "exception"
    /\ UNCHANGED <<data, args, peripherals, constants, registers, mem_regions,
                   raw_regions, previous_region, yielded, result, repl_file,
                   resc_file, refiltered, offset_in, offset_out>>

\* main: no --resc
SkipResc ==
    /\ pc = "generate_resc"
    /\ ~args.resc
    /\ pc' = "done"
    /\ UNCHANGED <<data, args, peripherals, constants, registers, mem_regions,
                   raw_regions, previous_region, yielded, result, repl_file,
                   resc_file, refiltered, offset_in, offset_out>>

\* main: 'REPL is needed when generating RESC file', sys.exit(1)
RescExit ==
    /\ pc = "generate_resc"
    /\ args.resc
    /\ ~args.repl
    /\ pc' = "exit_repl_needed"
    /\ UNCHANGED <<data, args, peripherals, constants, registers, mem_regions,
                   raw_regions, previous_region, yielded, result, repl_file,
                   resc_file, refiltered, offset_in, offset_out>>

\* main: print_or_save(args.resc, generate_resc(...))
WriteResc ==
    /\ pc = "generate_resc"
    /\ args.resc
    /\ args.repl
    /\ resc_file' = Some(FlashWrites(constants, args.firmware_binary))
    /\ pc' = "done"
    /\ UNCHANGED <<data, args, peripherals, constants, registers, mem_regions,
                   raw_regions, previous_region, yielded, result, repl_file,
                   refiltered, offset_in, offset_out>>

\* filter_memory_regions called again, on the regions it yielded, with the
\* same alignment and any allow-list
Refilter ==
    /\ pc = "done"
    /\ repl_file # None
    /\ refiltered = None
    /\ \E aa \in AutoalignChoices :
          refiltered' = Some(FilterMemoryRegions(yielded, Some(Alignment), aa))
    /\ UNCHANGED <<data, args, pc, peripherals, constants, registers, mem_regions,
                   raw_regions, previous_region, yielded, result, repl_file,
                   resc_file, offset_in, offset_out>>

Next ==
    \/ Parse
    \/ Normalize
    \/ StartRepl
    \/ SkipRepl
    \/ FilterSkip
    \/ FilterYield
    \/ FilterExit
    \/ FinishRepl
    \/ ReplException
    \/ SkipResc
    \/ RescExit
    \/ WriteResc
    \/ Refilter

Spec == Init /\ [][Next]_vars

----------------------------------------------------------------------------
(* The flash offset computation on its own *)

InitOffset ==
    /\ data = <<>>
    /\ args = Args(FALSE, FALSE, FALSE, {})
    /\ pc = "offset"
    /\ peripherals = <<>>
    /\ constants = <<>>
    /\ registers = <<>>
    /\ mem_regions = <<>>
    /\ raw_regions = <<>>
    /\ previous_region = None
    /\ yielded = <<>>
    /\ result = <<>>
    /\ repl_file = None
    /\ resc_file = None
    /\ refiltered = None
    /\ offset_in \in [boot : 0..MaxBoot, flash_base : 0..MaxBoot, mask : 0..MaxBoot]
    /\ offset_out = None

HasCandidate ==
    \E i \in 1..3 :
        OffsetCandidates(offset_in.boot, offset_in.flash_base, offset_in.mask)[i] >= 0

ComputeOffset ==
    /\ pc = "offset"
    /\ HasCandidate
    /\ offset_out' = Some(CalculateOffset(offset_in.boot, offset_in.flash_base,
                                          offset_in.mask))
    /\ pc' = "offset_done"
    /\ UNCHANGED <<data, args, peripherals, constants, registers, mem_regions,
                   raw_regions, previous_region, yielded, result, repl_file,
                   resc_file, refiltered, offset_in>>

\* no candidate is non-negative: the result is not defined
OffsetUndefined ==
    /\ pc = "offset"
    /\ ~HasCandidate
    /\ pc' = "offset_undefined"
    /\ UNCHANGED <<data, args, peripherals, constants, registers, mem_regions,
                   raw_regions, previous_region, yielded, result, repl_file,
                   resc_file, refiltered, offset_in, offset_out>>

NextOffset == ComputeOffset \/ OffsetUndefined

SpecOffset == InitOffset /\ [][NextOffset]_vars

----------------------------------------------------------------------------
(* Properties *)

\* the configuration as loaded: parsed and normalized, before any filtering
Loaded == NormalizeAddresses(ParseCsv(data))

AfterLoad == pc \notin {"parse", "normalize", "offset", "offset_done", "offset_undefined"}

Entities == mem_regions \o registers \o peripherals

\* C1: every region filter_memory_regions yields with alignment 4096 has,
\* when it is yielded, an address and a size that are multiples of 4096.
C1_YieldedAligned ==
    \A i \in 1..Len(yielded) :
        /\ yielded[i].address % Alignment = 0
        /\ yielded[i].size % Alignment = 0

\* a region whose address and size were both corrected has been yielded
C1_Witness ==
    \E i \in 1..Len(yielded) :
        /\ yielded[i].original_address # None
        /\ yielded[i].original_size # None

\* C2: with a shadow mask that is not 0, after _normalize_addresses every
\* entity's address and shadowed_address differ, and no registration
\* generate_sysbus_registration emits names the same address twice.
C2_ShadowDistinct ==
    (AfterLoad /\ ShadowBaseOf(constants) # None /\ ShadowBaseOf(constants)[1] # 0)
    => /\ \A i \in 1..Len(Entities) :
            /\ Entities[i].shadowed_address # None
            /\ Entities[i].shadowed_address[1] # Entities[i].address
            /\ LET reg == GenerateSysbusRegistration(Entities[i])
               IN  Len(reg) = 2 /\ reg[1] # reg[2]
       /\ \A i \in 1..Len(result) :
            LET reg == result[i].registration
            IN  Len(reg) = 2 /\ reg[1] # reg[2]

\* a platform description was written for an entity whose address already
\* held the mask bits, so that its primary address was cleared
C2_Witness ==
    /\ repl_file # None
    /\ ShadowBaseOf(constants) # None
    /\ ShadowBaseOf(constants)[1] # 0
    /\ \E i \in 1..Len(result) :
          /\ Len(result[i].registration) = 2
          /\ result[i].registration[2]
               = result[i].registration[1] + ShadowBaseOf(constants)[1]
          /\ \E j \in 1..Len(data) :
                /\ data[j].name = result[i].name
                /\ ParseInt(data[j].val) = result[i].registration[2]

Terminated ==
    pc \in {"done", "exception", "exit_address", "exit_size", "exit_overlap",
            "exit_repl_needed"}

\* the run ended in sys.exit(1)
FatalExit == pc \in {"exit_address", "exit_size", "exit_overlap", "exit_repl_needed"}

\* C3: when shadow_base is absent or 0, no entity has a shadow address that
\* generate_sysbus_registration registers: every device gets one bus range.
C3_NoShadowEntry ==
    (AfterLoad /\ (ShadowBaseOf(constants) = None \/ ShadowBaseOf(constants)[1] = 0))
    => /\ \A i \in 1..Len(Entities) : Len(GenerateSysbusRegistration(Entities[i])) = 1
       /\ \A i \in 1..Len(result) : Len(result[i].registration) = 1

\* C4: the regions retained by a filter_memory_regions that did not exit do
\* not overlap: each yielded region ends at or before the start of the next.
C4_NoOverlap ==
    (AfterLoad /\ ~FatalExit)
    => \A i \in 1..(Len(yielded) - 1) :
          yielded[i].address + yielded[i].size <= yielded[i + 1].address

\* a region, as filter_memory_regions meets it, that is not excluded, is
\* misaligned and is not in the allow-list
MisalignedInput ==
    \E i \in 1..Len(Loaded.mem_regions) :
        LET r == Loaded.mem_regions[i] IN
        /\ ~Contains(r.type, Linker)
        /\ r.name \notin non_generated_mem_regions
        /\ r.address % Alignment # 0 \/ r.size % Alignment # 0
        /\ r.name \notin args.autoalign

NoOutput == repl_file = None /\ resc_file = None

\* C5, as claimed: a misaligned region outside the allow-list, or a detected
\* overlap, ends the run in a fatal error with neither file written.
C5_FatalNoOutput_Claimed ==
    (Terminated /\ (MisalignedInput \/ pc = "exit_overlap"))
    => (FatalExit /\ NoOutput)

\* C5, amended: in a run that generates the platform description (--repl),
\* a misaligned region outside the allow-list, or a detected overlap, ends the
\* run in a fatal error with neither file written; files are never written
\* once the run has met either.
C5_FatalNoOutput ==
    /\ (Terminated /\ args.repl /\ (MisalignedInput \/ pc = "exit_overlap"))
           => (FatalExit /\ NoOutput)
    /\ (MisalignedInput \/ pc = "exit_overlap") => NoOutput

\* the run asked for both files and exited on a misaligned region
C5_Witness ==
    /\ args.repl
    /\ args.resc
    /\ MisalignedInput
    /\ pc \in {"exit_address", "exit_size"}
    /\ NoOutput

\* the region of the loaded configuration with this name
LoadedRegion(name) == Get(Loaded.mem_regions, name)

\* C6: for a region in the allow-list, filtering with alignment A sets the
\* address to A*floor(address/A) and the size to A*ceil(size/A);
\* original_address (original_size) holds the value before the correction
\* and is present only if the address (size) was corrected.
C6_AutoAlign ==
    \A i \in 1..Len(yielded) :
        LET y == yielded[i]
            r == LoadedRegion(y.name)
        IN  /\ y.name \in args.autoalign
               => /\ y.address = Alignment * (r.address \div Alignment)
                  /\ y.size = Alignment * ((r.size + Alignment - 1) \div Alignment)
            /\ y.original_address =
                  (IF y.address # r.address THEN Some(r.address) ELSE None)
            /\ y.original_size =
                  (IF y.size # r.size THEN Some(r.size) ELSE None)

\* the region {0x1800, 0x1500} was yielded as {0x1000, 0x2000}
C6_Witness ==
    \E i \in 1..Len(yielded) :
        /\ yielded[i].original_address = Some(6144)
        /\ yielded[i].original_size = Some(5376)
        /\ yielded[i].address = 4096
        /\ yielded[i].size = 8192

AddressAndSize(rs) ==
    [i \in 1..Len(rs) |->
        [name |-> rs[i].name, address |-> rs[i].address, size |-> rs[i].size]]

\* C7: filter_memory_regions run again on its own output, with the same
\* alignment and any allow-list, completes and yields the same regions in
\* the same order with the same address and size.
C7_Idempotent ==
    refiltered # None
    => /\ refiltered[1].status = "completed"
       /\ AddressAndSize(refiltered[1].regions) = AddressAndSize(yielded)

\* the second run was given regions that share an address, one of them
\* corrected by the first run
C7_Witness ==
    /\ refiltered # None
    /\ Len(yielded) >= 2
    /\ \E i \in 1..Len(yielded) : yielded[i].original_address # None
    /\ \E i \in 1..(Len(yielded) - 1) : yielded[i].address = yielded[i + 1].address

ConstantRows == {i \in 1..Len(data) : data[i].type = "constant"}

\* the constant of this row is held by peripheral p
AttachedTo(row, p) ==
    \E k \in 1..Len(p.constants) :
        /\ p.constants[k].name = LocalName(row.name, p.name)
        /\ p.constants[k].value = row.val

\* the constant of this row is held as a global constant
IsGlobal(row) ==
    \E k \in 1..Len(constants) :
        constants[k].name = row.name /\ constants[k].value = row.val

\* the name starts with the peripheral's name followed by "_"
PrefixMatches(name, csr_name) == StartsWith(name, csr_name \o <<"_">>)

\* C8: a constant is attached to peripheral P if and only if its name starts
\* with P's name followed by "_"; a constant that matches no peripheral in
\* that way is a global constant and is attached to no peripheral.
C8_ConstantAttribution ==
    pc # "parse"
    => \A i \in ConstantRows :
          LET row == data[i]
              matching == {j \in 1..Len(peripherals) :
                              PrefixMatches(row.name, peripherals[j].name)}
          IN  /\ \A j \in 1..Len(peripherals) :
                    AttachedTo(row, peripherals[j]) => j \in matching
              /\ matching # {} => \E j \in matching : AttachedTo(row, peripherals[j])
              /\ matching = {}
                    => /\ IsGlobal(row)
                       /\ \A j \in 1..Len(peripherals) : ~AttachedTo(row, peripherals[j])

RowOrders(n) == {f \in [1..n -> 1..n] : \A i, j \in 1..n : i # j => f[i] # f[j]}

Range(s) == {s[i] : i \in 1..Len(s)}

\* the collections as mappings, without the insertion order
AsMappings(cfg) ==
    [peripherals |-> {[name |-> p.name, address |-> p.address,
                       constants |-> Range(p.constants)] : p \in Range(cfg.peripherals)},
     constants |-> Range(cfg.constants),
     registers |-> Range(cfg.registers),
     mem_regions |-> Range(cfg.mem_regions)]

\* at most one peripheral name, followed by "_", starts each constant's name
AtMostOneMatch ==
    \A i \in ConstantRows :
        Cardinality({j \in 1..Len(data) :
                        /\ data[j].type = "csr_base"
                        /\ PrefixMatches(data[i].name, data[j].name)}) <= 1

\* C9: _parse_csv gives the same peripherals, per-peripheral constants and
\* global constants for every order of the same rows (at most one peripheral
\* name matching each constant).
C9_OrderIndependent ==
    (pc = "normalize" /\ AtMostOneMatch)
    => \A f \in RowOrders(Len(data)) :
          AsMappings(ParseCsv([i \in 1..Len(data) |-> data[f[i]]]))
              = AsMappings(Configuration)

RECURSIVE BitAnd(_, _)
BitAnd(a, m) ==
    IF a = 0 \/ m = 0 THEN 0
    ELSE (IF a % 2 = 1 /\ m % 2 = 1 THEN 1 ELSE 0) + 2 * BitAnd(a \div 2, m \div 2)

\* the entities as parsed, before _normalize_addresses, in the order of Entities
ParsedEntities ==
    LET cfg == ParseCsv(data)
    IN  cfg.mem_regions \o cfg.registers \o cfg.peripherals

\* _normalize_addresses has just run under a mask that is not 0
JustNormalized ==
    /\ pc = "generate_repl"
    /\ ShadowBaseOf(constants) # None
    /\ ShadowBaseOf(constants)[1] # 0

\* C11, as claimed: for an original address a and a mask m # 0, the normalized
\* pair satisfies address' | shadowed' = a | m when a & m = 0, and
\* address' = a with shadowed' = a | m whenever a & m # 0.
C11_ShadowPair_Claimed ==
    JustNormalized
    => \A i \in 1..Len(Entities) :
          LET a == ParsedEntities[i].address
              m == ShadowBaseOf(constants)[1]
              address == Entities[i].address
              shadowed == Entities[i].shadowed_address[1]
          IN  IF BitAnd(a, m) = 0
              THEN BitOr(address, shadowed) = BitOr(a, m)
              ELSE address = a /\ shadowed = BitOr(a, m)

\* C11, amended: for an original address a and a mask m # 0, shadowed' = a | m
\* and address' | shadowed' = a | m in every case; address' = a unless the
\* address holds the whole mask (a & m = m), and then address' = a & ~m.
C11_ShadowPair ==
    JustNormalized
    => \A i \in 1..Len(Entities) :
          LET a == ParsedEntities[i].address
              m == ShadowBaseOf(constants)[1]
              address == Entities[i].address
              shadowed == Entities[i].shadowed_address[1]
              a_or_m == a + m - BitAnd(a, m)
          IN  /\ shadowed = a_or_m
              /\ address + shadowed - BitAnd(address, shadowed) = a_or_m
              /\ BitAnd(a, m) # m => address = a
              /\ BitAnd(a, m) = m => address = a - m

\* an entity whose address shares some but not all bits of the mask has been
\* normalized (0x1000 or 0x2000 under the mask 0x3000)
C11_Witness ==
    /\ JustNormalized
    /\ \E i \in 1..Len(Entities) :
          LET a == ParsedEntities[i].address
              m == ShadowBaseOf(constants)[1]
          IN  /\ BitAnd(a, m) # 0
              /\ BitAnd(a, m) # m
              /\ Entities[i].address = a


\* a linker region, or one of the regions named ethmac and csr
Excluded(r) == Contains(r.type, Linker) \/ r.name \in {Ethmac, Csr}

NotExcluded(r) == ~Excluded(r)

FilterExits == {"exit_address", "exit_size", "exit_overlap"}

\* filter_memory_regions has been run to its end, or to its exit
FilterEnded ==
    /\ args.repl
    /\ \/ pc \in FilterExits
       \/ pc \in {"generate_resc", "done", "exception"}
       \/ pc = "filter" /\ raw_regions = <<>>

\* C12: linker regions and the regions named ethmac and csr have no effect
\* on the filtering: they are never yielded, never modified, never the cause
\* of a fatal error and never the previous region of the overlap test, and
\* the outcome is that of the input with those regions removed.
C12_ExcludedNoEffect ==
    (AfterLoad /\ args.repl)
    => /\ \A i \in 1..Len(yielded) : ~Excluded(yielded[i])
       /\ \A i \in 1..Len(mem_regions) :
             Excluded(mem_regions[i]) => mem_regions[i] = Loaded.mem_regions[i]
       /\ previous_region # None => ~Excluded(Get(mem_regions, previous_region[1]))
       /\ pc \in FilterExits => ~Excluded(Get(mem_regions, Head(raw_regions)))
       /\ FilterEnded
             => LET out == FilterMemoryRegions(
                               SelectSeq(Loaded.mem_regions, NotExcluded),
                               Some(Alignment), args.autoalign)
                IN  /\ yielded = out.regions
                    /\ (out.status = "exit") <=> (pc \in FilterExits)

\* a run that completed with two regions yielded and an excluded, misaligned
\* region sorted between them that ends after the second one
C12_Witness ==
    /\ pc = "done"
    /\ Len(yielded) = 2
    /\ \E i \in 1..Len(mem_regions) :
          LET x == mem_regions[i] IN
          /\ Excluded(x)
          /\ x.size % Alignment # 0
          /\ yielded[1].address < x.address
          /\ x.address <= yielded[2].address
          /\ x.address + x.size > yielded[2].address + yielded[2].size


\* C13: the regions are yielded in ascending order of their address as
\* emitted, that is after the correction, although the sort saw the
\* addresses before it.
C13_YieldedAscending ==
    \A i \in 1..(Len(yielded) - 1) : yielded[i].address <= yielded[i + 1].address

\* a region was yielded after one with a lower address in the file, and its
\* own address was corrected down to that of the one before it
C13_Witness ==
    \E i \in 1..(Len(yielded) - 1) :
        /\ yielded[i + 1].original_address # None
        /\ yielded[i].address < yielded[i + 1].original_address[1]
        /\ yielded[i].address = yielded[i + 1].address


\* the address and the size of a yielded region before any correction
OriginalAddress(r) == IF r.original_address # None THEN r.original_address[1] ELSE r.address
OriginalSize(r) == IF r.original_size # None THEN r.original_size[1] ELSE r.size

\* filter_memory_regions corrected the address or the size of r
Corrected(r) == r.original_address # None \/ r.original_size # None

\* C14: auto-alignment never loses memory: the range of every corrected
\* region, as yielded, contains the range the region had before the
\* correction, whether the address, the size or both were misaligned.
C14_NoMemoryLost ==
    \A i \in 1..Len(yielded) :
        Corrected(yielded[i])
        => /\ yielded[i].address <= OriginalAddress(yielded[i])
           /\ OriginalAddress(yielded[i]) + OriginalSize(yielded[i])
                <= yielded[i].address + yielded[i].size

\* C15: with a shadow mask m that is not 0, every memory region emitted to
\* the platform description is registered at its address and at
\* address | m, so that the alias follows the address filter_memory_regions
\* corrected and is aligned as the address is.
C15_ShadowTracksAddress ==
    (AfterLoad /\ ShadowBaseOf(constants) # None /\ ShadowBaseOf(constants)[1] # 0)
    => \A i \in 1..Len(result) :
          result[i].kind = "memory"
          => LET reg == result[i].registration
             IN  /\ Len(reg) = 2
                 /\ reg[2] = BitOr(reg[1], ShadowBaseOf(constants)[1])
                 /\ reg[2] % Alignment = 0

====
